---- MODULE Spec2Model ----
(***************************************************************************)
(* Three-way merge of gettext catalogs: po_merge.merger.merge_po_files and *)
(* the resilient parser it calls, as a state machine.  One run of the      *)
(* merge driver: parse base/ours/theirs, index the entries by key, decide  *)
(* every key, sort, save to the ours path, validate, append the conflict   *)
(* markers, return the exit code.                                          *)
(*                                                                         *)
(* Strings are modelled by ordered tokens: a msgid, a msgctxt and a msgstr *)
(* are naturals compared as the strings would be; msgid 0 is the empty     *)
(* string, msgctxt 0 is the empty string and NoCtx is Python's None.       *)
(***************************************************************************)
EXTENDS Integers, Sequences, FiniteSets, TLC

\* ---------------------------------------------------------------- bounds
\* entries in the three input catalogs together (Spec, SpecCatalog)
MaxEntries == 3
\* entries the three revisions have in common (SpecRevisions)
MaxCommon == 1
\* entries of the catalog merged with itself (SpecEqual)
MaxLen == 2
\* chunks after the header in the three input files together (SpecParse)
MaxChunks == 3

VARIABLES
    files,              \* path -> [metadata, chunks, tail]: the three files on disk
    config,             \* MergeConfig: strategy, prefer_non_fuzzy, validate_compiled
    pc,                 \* position inside merge_po_files
    base_result,        \* parse_po_resilient(base_path)
    ours_result,        \* parse_po_resilient(ours_path)
    theirs_result,      \* parse_po_resilient(theirs_path)
    base_dict,          \* key -> entry
    ours_dict,
    theirs_dict,
    all_keys,           \* the keys the for loop has still to visit
    merge_conflicts,    \* list of <<ours_entry, theirs_entry>>
    merged_entries,     \* list of decided entries, in the order decided
    compilation_error,  \* None, or the validator's message
    printed,            \* the diagnostics printed so far
    exit_code           \* the driver's exit status: what merge_po_files returned,
                        \* or 1 after an exception nothing catches (NoExit before)

vars == <<files, config, pc, base_result, ours_result, theirs_result,
          base_dict, ours_dict, theirs_dict, all_keys, merge_conflicts,
          merged_entries, compilation_error, printed, exit_code>>

\* ------------------------------------------------------------ data model
\* Python's None where an entry is expected (dict.get, decide_entry's result)
None == [none |-> TRUE]
\* POEntry.msgctxt is None
NoCtx == -1
\* compilation_error = None
NoError == "None"
\* merge_po_files has not returned yet
NoExit == -1

Paths == {"base", "ours", "theirs"}

\* polib.POEntry, the fields the merge reads
POEntry(ctx, id, obs, str, plural, fz) ==
    [msgctxt |-> ctx, msgid |-> id, obsolete |-> obs,
     msgstr |-> str, msgstr_plural |-> plural, fuzzy |-> fz]

\* no msgid / msgctxt pattern matches in a raw text (re.search returned None)
NoMatch == -1

\* the raw text of a chunk that fails to parse: a token for the text, and what
\* the patterns of extract_entry_key_from_text find in it
RawText(raw, ctx, id, obs) ==
    [raw |-> raw, msgctxt |-> ctx, msgid |-> id, obsolete |-> obs]

\* the chunks of a catalog file, by what the substring test of line 52 and
\* polib's pofile() make of them:
\*   header            both marks, pofile gives the metadata
\*   entry             no marks, pofile gives one entry
\*   malformed         no marks, pofile raises
\*   malformed header  both marks, pofile raises
\*   multiline entry   one record whose msgid and msgstr both start with an empty
\*                     first line: both marks, pofile gives one entry, no metadata
\*   entries           two records with no blank line between them: no marks,
\*                     pofile gives two entries
\*   no entry          no marks, pofile gives no entry (comments only)
HeaderChunk(m) == [kind |-> "header", metadata |-> m]
EntryChunk(e) == [kind |-> "entry", entry |-> e]
MalformedChunk(t) == [kind |-> "malformed", text |-> t]
MalformedHeaderChunk(t) == [kind |-> "malformed header", text |-> t]
MultilineEntryChunk(e) == [kind |-> "multiline entry", entry |-> e]
EntriesChunk(e1, e2, t) == [kind |-> "entries", entries |-> <<e1, e2>>, text |-> t]
NoEntryChunk(t) == [kind |-> "no entry", text |-> t]

\* 'msgid ""' in chunk and 'msgstr ""' in chunk
is_metadata(chunk) == chunk.kind \in {"header", "malformed header", "multiline entry"}

\* chunk.count('\n'): the lines of a chunk of each shape, less one
NewlineCount(chunk) ==
    CASE chunk.kind \in {"multiline entry", "entries"} -> 3
      [] chunk.kind = "no entry" -> 0
      [] OTHER -> 1

\* one item of failed_entries: (chunk, error, line_offset)
FailedEntry(text, error, line_offset) ==
    [text |-> text, error |-> error, line |-> line_offset]

\* create_unique_entry_from_text: (entry, None) or (None, error)
create_unique_entry_from_text(chunk) ==
    CASE chunk.kind = "entry" -> [entry |-> chunk.entry, error |-> "None"]
      [] chunk.kind = "entries" -> [entry |-> chunk.entries[1], error |-> "None"]
      [] chunk.kind = "no entry" -> [entry |-> None, error |-> "No entry found in text"]
      [] OTHER -> [entry |-> None, error |-> "Syntax error"]

\* a file: the chunks of the catalog, then the marker blocks appended to it
File(chunks) == [chunks |-> chunks, tail |-> <<>>]

Range(s) == {s[i] : i \in DOMAIN s}

\* ---------------------------------------------------------------- parser
\* one turn of the for loop of parse_po_resilient
ParseChunk(chunk, acc, line_offset) ==
    LET parsed == create_unique_entry_from_text(chunk)
    IN  IF is_metadata(chunk)
        THEN CASE chunk.kind = "header" ->
                    [acc EXCEPT !.metadata = chunk.metadata]
               [] chunk.kind = "multiline entry" ->
                    \* temp_po.metadata of a text with no header record
                    [acc EXCEPT !.metadata = 0]
               [] OTHER ->
                    [acc EXCEPT !.failed_entries =
                        Append(@, FailedEntry(chunk.text, "Syntax error", line_offset))]
        ELSE IF parsed.entry # None
             THEN IF parsed.entry.msgid # 0
                  THEN [acc EXCEPT !.valid_entries = Append(@, parsed.entry)]
                  ELSE acc
             ELSE [acc EXCEPT !.failed_entries =
                      Append(@, FailedEntry(chunk.text, parsed.error, line_offset))]

\* faulty variant: the first chunk that fails ends the parse
RECURSIVE ParseChunks_stops_at_failure(_, _, _)
ParseChunks_stops_at_failure(chunks, acc, line_offset) ==
    IF chunks = <<>> THEN acc
    ELSE
        LET next == ParseChunk(Head(chunks), acc, line_offset)
        IN  IF Len(next.failed_entries) > Len(acc.failed_entries) THEN next
            ELSE ParseChunks_stops_at_failure(Tail(chunks), next,
                                              line_offset + NewlineCount(Head(chunks)) + 2)

\* the for loop of parse_po_resilient over the chunks, left to right
RECURSIVE ParseChunks(_, _, _)
ParseChunks(chunks, acc, line_offset) ==
    IF chunks = <<>> THEN acc
    ELSE ParseChunks(Tail(chunks), ParseChunk(Head(chunks), acc, line_offset),
                     line_offset + NewlineCount(Head(chunks)) + 2)

parse_po_resilient(file) ==
    ParseChunks(file.chunks,
                [metadata |-> 0, valid_entries |-> <<>>, failed_entries |-> <<>>], 0)

\* ---------------------------------------------------------------- merger
\* faulty variant: the key forgets the message context
get_unique_entry_key_without_context(entry) == <<NoCtx, entry.msgid>>

get_unique_entry_key(entry) == <<entry.msgctxt, entry.msgid>>

\* {get_unique_entry_key(entry): entry for entry in valid_entries}:
\* a later entry under the same key replaces the earlier one
ToDict(valid_entries) ==
    [k \in {get_unique_entry_key(valid_entries[i]) : i \in DOMAIN valid_entries} |->
        LET last == CHOOSE i \in DOMAIN valid_entries :
                        /\ get_unique_entry_key(valid_entries[i]) = k
                        /\ \A j \in DOMAIN valid_entries :
                              j > i => get_unique_entry_key(valid_entries[j]) # k
        IN valid_entries[last]]

\* dict.get(key)
Get(dict, key) == IF key \in DOMAIN dict THEN dict[key] ELSE None

entries_equal(entry1, entry2) ==
    /\ entry1.msgstr = entry2.msgstr
    /\ entry1.msgstr_plural = entry2.msgstr_plural
    /\ entry1.fuzzy = entry2.fuzzy

\* what a call ends with: a returned value, or a raised exception
Return(v) == [tag |-> "return", value |-> v]
UnresolvedConflict(ours_entry, theirs_entry) ==
    [tag |-> "UnresolvedConflict", ours_entry |-> ours_entry, theirs_entry |-> theirs_entry]
UnknownStrategy == [tag |-> "Exception"]

\* faulty variant: the strategy is read the wrong way round
resolve_conflict_swapped_strategy(ours_entry, theirs_entry, cfg) ==
    IF ours_entry.obsolete /\ ~theirs_entry.obsolete THEN Return(theirs_entry)
    ELSE IF theirs_entry.obsolete /\ ~ours_entry.obsolete THEN Return(ours_entry)
    ELSE IF cfg.prefer_non_fuzzy /\ ours_entry.fuzzy /\ ~theirs_entry.fuzzy
         THEN Return(theirs_entry)
    ELSE IF cfg.prefer_non_fuzzy /\ theirs_entry.fuzzy /\ ~ours_entry.fuzzy
         THEN Return(ours_entry)
    ELSE IF cfg.strategy = "ours" THEN Return(theirs_entry)
    ELSE IF cfg.strategy = "theirs" THEN Return(ours_entry)
    ELSE IF cfg.strategy = "none" THEN UnresolvedConflict(ours_entry, theirs_entry)
    ELSE UnknownStrategy

\* django_po_merge/merger.py, lines 181-195: the copy of resolve_conflict in the
\* django_po_merge package has the fuzzy rule and the strategy, no obsolete rule
django_po_merge_resolve_conflict(ours_entry, theirs_entry, cfg) ==
    IF cfg.prefer_non_fuzzy /\ ours_entry.fuzzy /\ ~theirs_entry.fuzzy
    THEN Return(theirs_entry)
    ELSE IF cfg.prefer_non_fuzzy /\ theirs_entry.fuzzy /\ ~ours_entry.fuzzy
         THEN Return(ours_entry)
    ELSE IF cfg.strategy = "ours" THEN Return(ours_entry)
    ELSE IF cfg.strategy = "theirs" THEN Return(theirs_entry)
    ELSE IF cfg.strategy = "none" THEN UnresolvedConflict(ours_entry, theirs_entry)
    ELSE UnknownStrategy

\* po_merge/merger.py, lines 234-253
resolve_conflict(ours_entry, theirs_entry, cfg) ==
    IF ours_entry.obsolete /\ ~theirs_entry.obsolete THEN Return(theirs_entry)
    ELSE IF theirs_entry.obsolete /\ ~ours_entry.obsolete THEN Return(ours_entry)
    ELSE IF cfg.prefer_non_fuzzy /\ ours_entry.fuzzy /\ ~theirs_entry.fuzzy
         THEN Return(theirs_entry)
    ELSE IF cfg.prefer_non_fuzzy /\ theirs_entry.fuzzy /\ ~ours_entry.fuzzy
         THEN Return(ours_entry)
    ELSE IF cfg.strategy = "ours" THEN Return(ours_entry)
    ELSE IF cfg.strategy = "theirs" THEN Return(theirs_entry)
    ELSE IF cfg.strategy = "none" THEN UnresolvedConflict(ours_entry, theirs_entry)
    ELSE UnknownStrategy

\* faulty variant: an entry only one side added is dropped
decide_added_needs_both_sides(ours_entry, theirs_entry, cfg) ==
    IF ours_entry = None \/ theirs_entry = None THEN Return(None)
    ELSE IF entries_equal(ours_entry, theirs_entry) THEN Return(ours_entry)
    ELSE resolve_conflict(ours_entry, theirs_entry, cfg)

\* faulty variant: two equal additions are put through the conflict rules
decide_added_always_resolves(ours_entry, theirs_entry, cfg) ==
    IF ours_entry = None /\ theirs_entry = None THEN Return(None)
    ELSE IF ours_entry = None THEN Return(theirs_entry)
    ELSE IF theirs_entry = None THEN Return(ours_entry)
    ELSE resolve_conflict(ours_entry, theirs_entry, cfg)

\* decide_entry, the branch `if base_entry is None`
decide_added(ours_entry, theirs_entry, cfg) ==
    IF ours_entry = None /\ theirs_entry = None THEN Return(None)
    ELSE IF ours_entry = None THEN Return(theirs_entry)
    ELSE IF theirs_entry = None THEN Return(ours_entry)
    ELSE IF entries_equal(ours_entry, theirs_entry) THEN Return(ours_entry)
    ELSE resolve_conflict(ours_entry, theirs_entry, cfg)

\* faulty variant: a one-sided change is put through the conflict rules
decide_changed_resolves_one_sided(base_entry, ours_entry, theirs_entry, cfg) ==
    LET ours_changed == ~entries_equal(base_entry, ours_entry)
        theirs_changed == ~entries_equal(base_entry, theirs_entry)
    IN  IF ~ours_changed /\ ~theirs_changed THEN Return(base_entry)
        ELSE IF entries_equal(ours_entry, theirs_entry) THEN Return(ours_entry)
        ELSE resolve_conflict(ours_entry, theirs_entry, cfg)

\* faulty variant: the winner of a resolved conflict keeps the plurals of base
decide_changed_blends(base_entry, ours_entry, theirs_entry, cfg) ==
    LET ours_changed == ~entries_equal(base_entry, ours_entry)
        theirs_changed == ~entries_equal(base_entry, theirs_entry)
        r == resolve_conflict(ours_entry, theirs_entry, cfg)
    IN  IF ~ours_changed /\ ~theirs_changed THEN Return(base_entry)
        ELSE IF ours_changed /\ ~theirs_changed THEN Return(ours_entry)
        ELSE IF theirs_changed /\ ~ours_changed THEN Return(theirs_entry)
        ELSE IF entries_equal(ours_entry, theirs_entry) THEN Return(ours_entry)
        ELSE IF r.tag = "return"
             THEN Return([r.value EXCEPT !.msgstr_plural = base_entry.msgstr_plural])
        ELSE r

\* the three-way comparison of decide_entry, every side present
decide_changed(base_entry, ours_entry, theirs_entry, cfg) ==
    LET ours_changed == ~entries_equal(base_entry, ours_entry)
        theirs_changed == ~entries_equal(base_entry, theirs_entry)
    IN  IF ~ours_changed /\ ~theirs_changed THEN Return(base_entry)
        ELSE IF ours_changed /\ ~theirs_changed THEN Return(ours_entry)
        ELSE IF theirs_changed /\ ~ours_changed THEN Return(theirs_entry)
        ELSE IF entries_equal(ours_entry, theirs_entry) THEN Return(ours_entry)
        ELSE resolve_conflict(ours_entry, theirs_entry, cfg)

\* faulty variant: a deletion on one side wins over the surviving side
decide_existing_deletion_wins(base_entry, ours_entry, theirs_entry, cfg) ==
    IF ours_entry = None \/ theirs_entry = None THEN Return(None)
    ELSE decide_changed(base_entry, ours_entry, theirs_entry, cfg)

\* faulty variant: an entry deleted on both sides is kept from base
decide_existing_keeps_deleted(base_entry, ours_entry, theirs_entry, cfg) ==
    IF ours_entry = None /\ theirs_entry = None THEN Return(base_entry)
    ELSE IF ours_entry = None THEN Return(theirs_entry)
    ELSE IF theirs_entry = None THEN Return(ours_entry)
    ELSE decide_changed(base_entry, ours_entry, theirs_entry, cfg)

\* decide_entry, the branch `else` (base_entry is present)
decide_existing(base_entry, ours_entry, theirs_entry, cfg) ==
    IF ours_entry = None /\ theirs_entry = None THEN Return(None)
    ELSE IF ours_entry = None THEN Return(theirs_entry)
    ELSE IF theirs_entry = None THEN Return(ours_entry)
    ELSE decide_changed(base_entry, ours_entry, theirs_entry, cfg)

decide_entry(base_entry, ours_entry, theirs_entry, cfg) ==
    IF base_entry = None
    THEN decide_added(ours_entry, theirs_entry, cfg)
    ELSE decide_existing(base_entry, ours_entry, theirs_entry, cfg)

\* e.msgctxt or ''
CtxOrEmpty(e) == IF e.msgctxt = NoCtx THEN 0 ELSE e.msgctxt

\* the sort key (e.msgid, e.msgctxt or ''), compared as Python compares tuples
SortKeyLess(a, b) ==
    \/ a.msgid < b.msgid
    \/ a.msgid = b.msgid /\ CtxOrEmpty(a) < CtxOrEmpty(b)

\* list.sort(key=...): a stable sort of <<key source, item>> pairs, by insertion
\* from the left; an item goes after every item whose key is not greater
RECURSIVE InsertSorted(_, _)
InsertSorted(sorted, x) ==
    IF sorted = <<>> THEN <<x>>
    ELSE IF SortKeyLess(x[1], Head(sorted)[1]) THEN <<x>> \o sorted
    ELSE <<Head(sorted)>> \o InsertSorted(Tail(sorted), x)

RECURSIVE StableSort(_)
StableSort(pairs) ==
    IF pairs = <<>> THEN <<>>
    ELSE InsertSorted(StableSort(SubSeq(pairs, 1, Len(pairs) - 1)), pairs[Len(pairs)])

\* faulty variant: the entries are left in the order they were decided
sort_entries_unsorted(entries) == entries

\* entries.sort(key=lambda e: (e.msgid, e.msgctxt or ''))
sort_entries(entries) ==
    LET sorted == StableSort([i \in DOMAIN entries |-> <<entries[i], entries[i]>>])
    IN [i \in DOMAIN sorted |-> sorted[i][2]]

\* merge_conflicts.sort(key=lambda x: (x[0].msgid, x[0].msgctxt or ''))
sort_conflicts(conflicts) ==
    LET sorted == StableSort([i \in DOMAIN conflicts |-> <<conflicts[i][1], conflicts[i]>>])
    IN [i \in DOMAIN sorted |-> sorted[i][2]]

IsActive(e) == ~e.obsolete
IsObsolete(e) == e.obsolete
active_entries == sort_entries(SelectSeq(merged_entries, IsActive))
obsolete_entries == sort_entries(SelectSeq(merged_entries, IsObsolete))

\* faulty variant: the metadata of ours under every strategy
merged_metadata_always_ours == ours_result.metadata

\* merged_po.metadata
merged_metadata ==
    IF config.strategy = "theirs" THEN theirs_result.metadata ELSE ours_result.metadata

\* POFile.save: the header, then the entries as extended
SavedChunks(metadata, entries) ==
    <<HeaderChunk(metadata)>> \o [i \in DOMAIN entries |-> EntryChunk(entries[i])]

\* the marker blocks
\* format_parse_error_conflict, lines 103-143, for one group of failures; the
\* caller never passes a group whose ours and theirs copies are both missing
ParseErrorBlock(group) ==
    LET sources ==
            (IF group.base # None THEN <<<<"BASE", group.base.line>>>> ELSE <<>>)
            \o (IF group.ours # None THEN <<<<"OURS", group.ours.line>>>> ELSE <<>>)
            \o (IF group.theirs # None THEN <<<<"THEIRS", group.theirs.line>>>> ELSE <<>>)
        other == IF group.ours # None THEN group.ours ELSE group.theirs
        label == IF group.ours # None THEN "OURS" ELSE "THEIRS"
    IN  IF group.base # None /\ group.ours # None /\ group.theirs # None
        THEN [kind |-> "PARSE ERROR", sources |-> sources, error |-> group.error,
              texts |-> <<group.ours.text, group.base.text, group.theirs.text>>,
              closing |-> "PARSE ERROR"]
        ELSE IF group.base # None
        THEN [kind |-> "PARSE ERROR", sources |-> sources, error |-> group.error,
              texts |-> <<other.text, group.base.text>>, closing |-> label]
        ELSE [kind |-> "PARSE ERROR", sources |-> sources, error |-> group.error,
              texts |-> <<other.text>>, closing |-> label]
MergeConflictBlock(c) == [kind |-> "MERGE CONFLICT", ours |-> c[1], theirs |-> c[2]]
CompilationErrorBlock(msg) == [kind |-> "COMPILATION ERROR", error |-> msg]

has_parse_failures ==
    \/ Len(base_result.failed_entries) > 0
    \/ Len(ours_result.failed_entries) > 0
    \/ Len(theirs_result.failed_entries) > 0

\* the best-effort identity the patterns read off a raw text
extract_entry_key_from_text(text) == <<text.msgctxt, text.msgid, text.obsolete>>

\* info[0] with info = None
TypeError == [tag |-> "TypeError"]

\* lines 80-94: failures_by_key as the list of its values, in insertion order. A
\* later failure of the same source under the same key replaces the earlier one;
\* the error is the one of the failure that created the group
failures_by_key(base_failed, ours_failed, theirs_failed) ==
    LET Tag(source, failures) ==
            [i \in DOMAIN failures |-> [source |-> source, failure |-> failures[i]]]
        tagged == Tag("base", base_failed) \o Tag("ours", ours_failed)
                  \o Tag("theirs", theirs_failed)
        KeyAt(i) == extract_entry_key_from_text(tagged[i].failure.text)
        firsts == {i \in DOMAIN tagged : \A j \in 1..(i - 1) : KeyAt(j) # KeyAt(i)}
        Nth(n) == CHOOSE i \in firsts : Cardinality({j \in firsts : j < i}) = n - 1
        Info(key, source) ==
            LET at == {i \in DOMAIN tagged : tagged[i].source = source /\ KeyAt(i) = key}
            IN  IF at = {} THEN None
                ELSE LET last == CHOOSE i \in at : \A j \in at : j <= i
                     IN [text |-> tagged[last].failure.text,
                         line |-> tagged[last].failure.line]
    IN [n \in 1..Cardinality(firsts) |->
            [key |-> KeyAt(Nth(n)),
             base |-> Info(KeyAt(Nth(n)), "base"),
             ours |-> Info(KeyAt(Nth(n)), "ours"),
             theirs |-> Info(KeyAt(Nth(n)), "theirs"),
             error |-> tagged[Nth(n)].failure.error]]

\* lines 96-147: one block per group; a group with a base copy only reaches the
\* else branch with ours_info = theirs_info = None, and info[0] raises
format_parse_error_conflict(base_failed, ours_failed, theirs_failed) ==
    LET groups == failures_by_key(base_failed, ours_failed, theirs_failed)
    IN  IF \E n \in DOMAIN groups : groups[n].ours = None /\ groups[n].theirs = None
        THEN TypeError
        ELSE Return([n \in DOMAIN groups |-> ParseErrorBlock(groups[n])])

format_merge_conflicts(conflicts) ==
    [i \in DOMAIN conflicts |-> MergeConflictBlock(conflicts[i])]

\* lines 155-160
parse_markers ==
    IF has_parse_failures
    THEN format_parse_error_conflict(base_result.failed_entries,
                                     ours_result.failed_entries,
                                     theirs_result.failed_entries)
    ELSE Return(<<>>)

\* the markers of lines 147-172, when format_parse_error_conflict returned
all_conflict_markers ==
    parse_markers.value
    \o format_merge_conflicts(sort_conflicts(merge_conflicts))
    \o (IF compilation_error \notin {NoError, ""}
        THEN <<CompilationErrorBlock(compilation_error)>> ELSE <<>>)

\* --------------------------------------------------------------- actions
NoResult == [metadata |-> 0, valid_entries |-> <<>>, failed_entries |-> <<>>]
EmptyDict == [k \in {} |-> None]

\* faulty variant: the handler swallows the read error and the merge goes on
read_error_handler_swallows == "decide"

\* parse_po_resilient, lines 41-43: the handler prints and re-raises; nothing in
\* merge_po_files or the driver catches it
read_error_handler == "read failed"

\* lines 38-43: open() or read() raised for one of the three paths
ReadFails ==
    /\ pc = "parse"
    /\ printed' = printed \cup {"ERROR: Failed to read file"}
    /\ pc' = read_error_handler
    /\ exit_code' = IF read_error_handler = "read failed" THEN 1 ELSE exit_code
    /\ UNCHANGED <<files, config, base_result, ours_result, theirs_result, base_dict,
                   ours_dict, theirs_dict, all_keys, merge_conflicts, merged_entries,
                   compilation_error>>

\* merge_po_files, lines 95-106: the three parses, the three indices, the key union
Parse ==
    /\ pc = "parse"
    /\ base_result' = parse_po_resilient(files["base"])
    /\ ours_result' = parse_po_resilient(files["ours"])
    /\ theirs_result' = parse_po_resilient(files["theirs"])
    /\ base_dict' = ToDict(base_result'.valid_entries)
    /\ ours_dict' = ToDict(ours_result'.valid_entries)
    /\ theirs_dict' = ToDict(theirs_result'.valid_entries)
    /\ all_keys' = DOMAIN base_dict' \cup DOMAIN ours_dict' \cup DOMAIN theirs_dict'
    /\ pc' = "decide"
    /\ UNCHANGED <<files, config, merge_conflicts, merged_entries,
                   compilation_error, printed, exit_code>>

\* faulty variant: an unresolved conflict is recorded and the ours entry is kept
\* in the catalog as well
DecideKey_records_and_decides ==
    /\ pc = "decide"
    /\ \E key \in all_keys :
        LET r == decide_entry(Get(base_dict, key), Get(ours_dict, key),
                              Get(theirs_dict, key), config)
        IN  /\ all_keys' = all_keys \ {key}
            /\ CASE r.tag = "return" ->
                      /\ merged_entries' = IF r.value # None
                                           THEN Append(merged_entries, r.value)
                                           ELSE merged_entries
                      /\ UNCHANGED <<merge_conflicts, pc, exit_code>>
                 [] r.tag = "UnresolvedConflict" ->
                      /\ merge_conflicts' =
                            Append(merge_conflicts, <<r.ours_entry, r.theirs_entry>>)
                      /\ merged_entries' = Append(merged_entries, r.ours_entry)
                      /\ UNCHANGED <<pc, exit_code>>
                 [] OTHER ->
                      /\ pc' = "crashed"
                      /\ exit_code' = 1
                      /\ UNCHANGED <<merged_entries, merge_conflicts>>
    /\ UNCHANGED <<files, config, base_result, ours_result, theirs_result,
                   base_dict, ours_dict, theirs_dict, compilation_error, printed>>

\* one turn of the loop `for key in all_keys`; a set is iterated in any order
DecideKey ==
    /\ pc = "decide"
    /\ \E key \in all_keys :
        LET r == decide_entry(Get(base_dict, key), Get(ours_dict, key),
                              Get(theirs_dict, key), config)
        IN  /\ all_keys' = all_keys \ {key}
            /\ CASE r.tag = "return" ->
                      /\ merged_entries' = IF r.value # None
                                           THEN Append(merged_entries, r.value)
                                           ELSE merged_entries
                      /\ UNCHANGED <<merge_conflicts, pc, exit_code>>
                 [] r.tag = "UnresolvedConflict" ->
                      /\ merge_conflicts' =
                            Append(merge_conflicts, <<r.ours_entry, r.theirs_entry>>)
                      /\ UNCHANGED <<merged_entries, pc, exit_code>>
                 [] OTHER ->
                      \* an exception nothing catches: the driver dies
                      /\ pc' = "crashed"
                      /\ exit_code' = 1
                      /\ UNCHANGED <<merged_entries, merge_conflicts>>
    /\ UNCHANGED <<files, config, base_result, ours_result, theirs_result,
                   base_dict, ours_dict, theirs_dict, compilation_error, printed>>

\* lines 121-136: partition, sort, build the POFile, save it to the ours path
Save ==
    /\ pc = "decide"
    /\ all_keys = {}
    /\ files' = [files EXCEPT !["ours"] =
                    File(SavedChunks(merged_metadata, active_entries \o obsolete_entries))]
    /\ pc' = "validate"
    /\ UNCHANGED <<config, base_result, ours_result, theirs_result, base_dict,
                   ours_dict, theirs_dict, all_keys, merge_conflicts, merged_entries,
                   compilation_error, printed, exit_code>>

\* faulty variant: after a failed save the run goes on to validate and append
SaveFails_goes_on ==
    /\ pc = "decide"
    /\ all_keys = {}
    /\ printed' = printed \cup {"Failed to save merged file"}
    /\ pc' = "validate"
    /\ UNCHANGED <<files, config, base_result, ours_result, theirs_result, base_dict,
                   ours_dict, theirs_dict, all_keys, merge_conflicts, merged_entries,
                   compilation_error, exit_code>>

\* lines 137-139: the save raised
SaveFails ==
    /\ pc = "decide"
    /\ all_keys = {}
    /\ printed' = printed \cup {"Failed to save merged file"}
    /\ pc' = "save failed"
    /\ exit_code' = 1
    /\ UNCHANGED <<files, config, base_result, ours_result, theirs_result, base_dict,
                   ours_dict, theirs_dict, all_keys, merge_conflicts, merged_entries,
                   compilation_error>>

\* lines 141-145 with validate_po_compilation: msgfmt's verdict is the environment's
Validate ==
    /\ pc = "validate"
    /\ IF config.validate_compiled
       THEN \E outcome \in {"ok", "msgfmt not found", "error", "error without output"} :
               /\ compilation_error' =
                     CASE outcome = "error" -> "msgfmt: error"
                       [] outcome = "error without output" -> ""
                       [] OTHER -> NoError
               /\ printed' = IF outcome = "msgfmt not found"
                             THEN printed \cup {"Warning: msgfmt not found"}
                             ELSE printed
       ELSE UNCHANGED <<compilation_error, printed>>
    /\ pc' = "markers"
    /\ UNCHANGED <<files, config, base_result, ours_result, theirs_result, base_dict,
                   ours_dict, theirs_dict, all_keys, merge_conflicts, merged_entries,
                   exit_code>>

\* faulty variant: only parse failures make the merge fail
return_code_ignores_conflicts == IF has_parse_failures THEN 1 ELSE 0

\* faulty variant: only unresolved conflicts make the merge fail
return_code_ignores_parse_failures == IF merge_conflicts # <<>> THEN 1 ELSE 0

\* lines 181-184
return_code == IF merge_conflicts # <<>> \/ has_parse_failures THEN 1 ELSE 0

\* lines 147-184: collect the markers, append them (the write may fail), return
Finish ==
    /\ pc = "markers"
    /\ IF parse_markers.tag = "return"
       THEN /\ \E written \in BOOLEAN :
                /\ (all_conflict_markers = <<>>) => written
                /\ files' = IF written
                            THEN [files EXCEPT !["ours"].tail = @ \o all_conflict_markers]
                            ELSE files
                /\ printed' = IF written THEN printed
                              ELSE printed \cup {"Failed to write conflict markers"}
            /\ exit_code' = return_code
            /\ pc' = "done"
       ELSE \* format_parse_error_conflict raised: nothing is appended, the driver dies
            /\ pc' = "crashed"
            /\ exit_code' = 1
            /\ UNCHANGED <<files, printed>>
    /\ UNCHANGED <<config, base_result, ours_result, theirs_result, base_dict,
                   ours_dict, theirs_dict, all_keys, merge_conflicts, merged_entries,
                   compilation_error>>

Next == ReadFails \/ Parse \/ DecideKey \/ Save \/ SaveFails \/ Validate \/ Finish

\* ---------------------------------------------------------- initial states
Strategies == {"ours", "theirs", "none"}
Configs == [strategy : Strategies, prefer_non_fuzzy : BOOLEAN, validate_compiled : BOOLEAN]
\* the configurations that run no validator
ConfigsNoValidation == {c \in Configs : ~c.validate_compiled}
\* the default strategy and fuzzy preference, no validator
ConfigsDefault ==
    {c \in Configs : c.strategy = "none" /\ c.prefer_non_fuzzy /\ ~c.validate_compiled}

\* the tokens standing for message ids, contexts and translations
MsgIds == {1, 2}
MsgCtxts == {NoCtx, 1}
MsgStrs == {1, 2}

\* one key, every obsolete flag and content
KeyEntries ==
    {POEntry(NoCtx, 1, obs, str, 0, fz) :
        obs \in BOOLEAN, str \in MsgStrs, fz \in BOOLEAN}

\* every identity, one content
CatalogEntries ==
    {POEntry(ctx, id, obs, 1, 0, FALSE) :
        ctx \in MsgCtxts, id \in MsgIds, obs \in BOOLEAN}

\* active entries under two keys, every content, and one entry under a third key
RevisionEntries ==
    {POEntry(NoCtx, id, FALSE, str, 0, fz) :
        id \in MsgIds, str \in MsgStrs, fz \in BOOLEAN}
    \cup {POEntry(1, 1, FALSE, 1, 0, FALSE)}

\* the entries the three revisions share: one content under each key
CommonEntries == {e \in RevisionEntries : e.msgstr = 1 /\ ~e.fuzzy}

\* every identity and translation
EqualEntries ==
    {POEntry(ctx, id, obs, str, 0, FALSE) :
        ctx \in MsgCtxts, id \in MsgIds, obs \in BOOLEAN, str \in MsgStrs}

SeqsUpTo(S, n) == UNION {[1..k -> S] : k \in 0..n}

Catalog(meta, entries) ==
    File(<<HeaderChunk(meta)>> \o [i \in DOMAIN entries |-> EntryChunk(entries[i])])

InitRun ==
    /\ pc = "parse"
    /\ base_result = NoResult
    /\ ours_result = NoResult
    /\ theirs_result = NoResult
    /\ base_dict = EmptyDict
    /\ ours_dict = EmptyDict
    /\ theirs_dict = EmptyDict
    /\ all_keys = {}
    /\ merge_conflicts = <<>>
    /\ merged_entries = <<>>
    /\ compilation_error = NoError
    /\ printed = {}
    /\ exit_code = NoExit

InitFiles(b, o, t) ==
    files = [p \in Paths |->
                CASE p = "base" -> Catalog(1, b)
                  [] p = "ours" -> Catalog(2, o)
                  [] OTHER -> Catalog(3, t)]

\* three catalogs of at most MaxEntries entries together, drawn from E
InitTotal(E, Cfgs) ==
    /\ config \in Cfgs
    /\ \E nb \in 0..MaxEntries : \E no \in 0..(MaxEntries - nb) :
       \E nt \in 0..(MaxEntries - nb - no) :
       \E b \in [1..nb -> E], o \in [1..no -> E], t \in [1..nt -> E] :
          InitFiles(b, o, t)
    /\ InitRun

\* one key in depth: every presence, obsolete flag and content on the three sides
Init == InitTotal(KeyEntries, Configs)
Spec == Init /\ [][Next]_vars

\* several identities: contexts, ids, active and obsolete
InitCatalog == InitTotal(CatalogEntries, ConfigsDefault)
SpecCatalog == InitCatalog /\ [][Next]_vars

\* three revisions of one catalog: a common part, and at most one more entry each
InitRevisions ==
    /\ config \in ConfigsNoValidation
    /\ \E common \in SeqsUpTo(CommonEntries, MaxCommon) :
       \E b, o, t \in SeqsUpTo(RevisionEntries, 1) :
          InitFiles(common \o b, common \o o, common \o t)
    /\ InitRun
SpecRevisions == InitRevisions /\ [][Next]_vars

\* entries whose sort keys meet: no context and the empty context under one id
OrderEntries ==
    {POEntry(ctx, 1, FALSE, str, 0, FALSE) : ctx \in {NoCtx, 0}, str \in MsgStrs}
    \cup {POEntry(NoCtx, 2, FALSE, 1, 0, FALSE)}

\* record order and key order: catalogs over entries with meeting sort keys
InitOrder == InitTotal(OrderEntries, ConfigsDefault)
SpecOrder == InitOrder /\ [][Next]_vars

\* the chunks of the parser slice: two contents under one key, a record with an
\* empty msgid, a multiline record, two records in one chunk, and the texts that
\* fail: two with the same extracted key, a broken header, a comment
ParseChunkKinds ==
    { EntryChunk(POEntry(NoCtx, 1, FALSE, 1, 0, FALSE)),
      EntryChunk(POEntry(NoCtx, 1, FALSE, 2, 0, FALSE)),
      EntryChunk(POEntry(NoCtx, 0, TRUE, 1, 0, FALSE)),
      MultilineEntryChunk(POEntry(NoCtx, 2, FALSE, 1, 0, FALSE)),
      EntriesChunk(POEntry(NoCtx, 2, FALSE, 1, 0, FALSE),
                   POEntry(1, 2, FALSE, 1, 0, FALSE), RawText(6, 1, 2, FALSE)),
      MalformedChunk(RawText(1, NoMatch, 1, FALSE)),
      MalformedChunk(RawText(2, NoMatch, 1, FALSE)),
      MalformedHeaderChunk(RawText(3, NoMatch, 0, FALSE)),
      NoEntryChunk(RawText(4, NoMatch, NoMatch, FALSE)) }

\* the strategies, the fuzzy preference at its default, no validator
ConfigsByStrategy == {c \in Configs : c.prefer_non_fuzzy /\ ~c.validate_compiled}

\* three files: a header each, then at most MaxChunks chunks together
InitParse ==
    /\ config \in ConfigsByStrategy
    /\ \E nb \in 0..MaxChunks : \E no \in 0..(MaxChunks - nb) :
       \E nt \in 0..(MaxChunks - nb - no) :
       \E b \in [1..nb -> ParseChunkKinds], o \in [1..no -> ParseChunkKinds],
          t \in [1..nt -> ParseChunkKinds] :
          files = [p \in Paths |->
                      CASE p = "base" -> File(<<HeaderChunk(1)>> \o b)
                        [] p = "ours" -> File(<<HeaderChunk(2)>> \o o)
                        [] OTHER -> File(<<HeaderChunk(3)>> \o t)]
    /\ InitRun
SpecParse == InitParse /\ [][Next]_vars

\* a strategy value that is none of ours, theirs, none
ConfigsUnknownStrategy ==
    [strategy : {"unknown"}, prefer_non_fuzzy : BOOLEAN, validate_compiled : {FALSE}]

\* one key in depth under a configuration with an unknown strategy
InitStrategy == InitTotal(KeyEntries, ConfigsUnknownStrategy)
SpecStrategy == InitStrategy /\ [][Next]_vars

\* one catalog given as base, ours and theirs
InitEqual ==
    /\ config \in Configs
    /\ \E C \in SeqsUpTo(EqualEntries, MaxLen) : InitFiles(C, C, C)
    /\ InitRun
SpecEqual == InitEqual /\ [][Next]_vars

\* one key, every translation and plural translation
MsgStrPlurals == {1, 2}
PluralEntries ==
    {POEntry(NoCtx, 1, FALSE, str, pl, FALSE) : str \in MsgStrs, pl \in MsgStrPlurals}
InitPlural == InitTotal(PluralEntries, ConfigsByStrategy)
SpecPlural == InitPlural /\ [][Next]_vars

\* ---------------------------------------------------------------- claims
\* the identity of an entry in the catalog model: (context, id, obsolete)
Identity(e) == <<e.msgctxt, e.msgid, e.obsolete>>

DistinctIdentities(entries) ==
    \A i, j \in DOMAIN entries : i # j => Identity(entries[i]) # Identity(entries[j])

DistinctKeys(entries) ==
    \A i, j \in DOMAIN entries :
        i # j => get_unique_entry_key(entries[i]) # get_unique_entry_key(entries[j])

\* the valid entries of the three inputs, as parsed
B == base_result.valid_entries
O == ours_result.valid_entries
T == theirs_result.valid_entries

\* the loop over the keys has ended
Decided == pc \notin {"parse", "read failed", "crashed"} /\ all_keys = {}
\* the merged catalog is on disk
Saved == pc \in {"validate", "markers", "done"}
\* merge_po_files has returned
Returned == pc \in {"done", "save failed"}
\* the append of the markers did not fail
MarkersWritten == "Failed to write conflict markers" \notin printed

AllKeys == DOMAIN base_dict \cup DOMAIN ours_dict \cup DOMAIN theirs_dict

\* the entries of the catalog written to the ours path
IsEntryChunk(c) == c.kind = "entry"
BodyEntries ==
    LET cs == SelectSeq(files["ours"].chunks, IsEntryChunk)
    IN [i \in DOMAIN cs |-> cs[i].entry]

\* the decided entries under a key, and the keys with a recorded conflict
DecidedAt(k) == {e \in Range(merged_entries) : get_unique_entry_key(e) = k}
DecidedCount(k) ==
    Cardinality({i \in DOMAIN merged_entries : get_unique_entry_key(merged_entries[i]) = k})
ConflictKeys ==
    {get_unique_entry_key(merge_conflicts[i][1]) : i \in DOMAIN merge_conflicts}

\* ours and theirs are both present and content-unequal, after an add/add or a
\* modify/modify
AddAdd(k) ==
    /\ k \notin DOMAIN base_dict /\ k \in DOMAIN ours_dict /\ k \in DOMAIN theirs_dict
    /\ ~entries_equal(ours_dict[k], theirs_dict[k])
ModifyModify(k) ==
    /\ k \in DOMAIN base_dict /\ k \in DOMAIN ours_dict /\ k \in DOMAIN theirs_dict
    /\ ~entries_equal(base_dict[k], ours_dict[k])
    /\ ~entries_equal(base_dict[k], theirs_dict[k])
    /\ ~entries_equal(ours_dict[k], theirs_dict[k])
\* neither the obsolete rule nor the fuzzy rule decides between the two sides
RulesDoNotDecide(k) ==
    /\ ours_dict[k].obsolete = theirs_dict[k].obsolete
    /\ ~config.prefer_non_fuzzy \/ ours_dict[k].fuzzy = theirs_dict[k].fuzzy

\* C1: merging a catalog with pairwise distinct identities with itself records no
\* conflict and decides exactly the entries of the catalog.
C1_EqualMergeKeepsCatalog ==
    (Decided /\ B = O /\ O = T /\ DistinctIdentities(O)) =>
        /\ merge_conflicts = <<>>
        /\ Range(merged_entries) = Range(O)
        /\ Len(merged_entries) = Len(O)

\* C2: a key absent from base and present on exactly one side is decided as that
\* side's entry, with no conflict; so (base, base + X, base + Y), X and Y under
\* different new keys, merges to base + X + Y.
C2_AdditionAccepted ==
    Decided =>
        /\ \A k \in AllKeys \ DOMAIN base_dict :
              /\ (k \in DOMAIN ours_dict /\ k \notin DOMAIN theirs_dict) =>
                    DecidedAt(k) = {ours_dict[k]} /\ k \notin ConflictKeys
              /\ (k \in DOMAIN theirs_dict /\ k \notin DOMAIN ours_dict) =>
                    DecidedAt(k) = {theirs_dict[k]} /\ k \notin ConflictKeys
        /\ ( /\ Len(O) = Len(B) + 1 /\ SubSeq(O, 1, Len(B)) = B
             /\ Len(T) = Len(B) + 1 /\ SubSeq(T, 1, Len(B)) = B
             /\ DistinctKeys(B \o <<O[Len(O)], T[Len(T)]>>) ) =>
                /\ merge_conflicts = <<>>
                /\ Range(merged_entries) = Range(B) \cup {O[Len(O)], T[Len(T)]}
                /\ Len(merged_entries) = Len(B) + 2

C2_Witness ==
    /\ pc = "done" /\ exit_code = 0
    /\ Len(B) = 1
    /\ Len(O) = 2 /\ O[1] = B[1]
    /\ Len(T) = 2 /\ T[1] = B[1]
    /\ DistinctKeys(<<B[1], O[2], T[2]>>)
    /\ Range(BodyEntries) = {B[1], O[2], T[2]}

\* C3: a key present in base and on exactly one side is decided as the surviving
\* side's entry, modified or not: one entry, no conflict.
C3_DeletionPrecedence ==
    Decided =>
        \A k \in DOMAIN base_dict :
            /\ (k \in DOMAIN ours_dict /\ k \notin DOMAIN theirs_dict) =>
                  /\ DecidedAt(k) = {ours_dict[k]}
                  /\ DecidedCount(k) = 1
                  /\ k \notin ConflictKeys
            /\ (k \in DOMAIN theirs_dict /\ k \notin DOMAIN ours_dict) =>
                  /\ DecidedAt(k) = {theirs_dict[k]}
                  /\ DecidedCount(k) = 1
                  /\ k \notin ConflictKeys

C3_Witness ==
    /\ pc = "done"
    /\ \E k \in DOMAIN base_dict :
          /\ k \notin DOMAIN ours_dict
          /\ k \in DOMAIN theirs_dict
          /\ ~entries_equal(base_dict[k], theirs_dict[k])
          /\ theirs_dict[k] \in Range(BodyEntries)

\* C4: a key present in base and absent from both sides is neither decided nor a
\* conflict; (base + Z, base, base) merges to base.
C4_DoubleDeletion ==
    Decided =>
        /\ \A k \in DOMAIN base_dict \ (DOMAIN ours_dict \cup DOMAIN theirs_dict) :
              /\ DecidedAt(k) = {}
              /\ k \notin ConflictKeys
              /\ Saved => \A i \in DOMAIN BodyEntries :
                              get_unique_entry_key(BodyEntries[i]) # k
        /\ (Len(B) = Len(O) + 1 /\ SubSeq(B, 1, Len(O)) = O /\ T = O /\ DistinctKeys(B)) =>
              /\ merge_conflicts = <<>>
              /\ Range(merged_entries) = Range(O)
              /\ Len(merged_entries) = Len(O)

C4_Witness ==
    /\ pc = "done" /\ exit_code = 0
    /\ Len(B) = 2 /\ DistinctKeys(B)
    /\ O = <<B[1]>> /\ T = O
    /\ BodyEntries = O

\* C5: in an add/add or modify/modify conflict with prefer_non_fuzzy set and
\* exactly one side fuzzy, the non-fuzzy side is decided and no conflict is
\* recorded, whatever the strategy.
C5_FuzzyPreference ==
    Decided =>
        \A k \in AllKeys :
            ( /\ AddAdd(k) \/ ModifyModify(k)
              /\ config.prefer_non_fuzzy
              /\ ours_dict[k].fuzzy # theirs_dict[k].fuzzy ) =>
                /\ DecidedAt(k) =
                      {IF ours_dict[k].fuzzy THEN theirs_dict[k] ELSE ours_dict[k]}
                /\ k \notin ConflictKeys

\* C6: in a conflict the obsolete and fuzzy rules do not decide, strategy ours
\* decides the ours entry and strategy theirs the theirs entry, with no conflict.
C6_StrategyFallback ==
    Decided =>
        \A k \in AllKeys :
            ((AddAdd(k) \/ ModifyModify(k)) /\ RulesDoNotDecide(k)) =>
                /\ config.strategy = "ours" =>
                      /\ DecidedAt(k) = {ours_dict[k]}
                      /\ DecidedCount(k) = 1
                      /\ k \notin ConflictKeys
                /\ config.strategy = "theirs" =>
                      /\ DecidedAt(k) = {theirs_dict[k]}
                      /\ DecidedCount(k) = 1
                      /\ k \notin ConflictKeys

C6_Witness ==
    /\ pc = "done"
    /\ config.strategy = "theirs"
    /\ config.prefer_non_fuzzy
    /\ \E k \in AllKeys :
          /\ ModifyModify(k)
          /\ ours_dict[k].fuzzy /\ theirs_dict[k].fuzzy
          /\ ~ours_dict[k].obsolete /\ ~theirs_dict[k].obsolete
          /\ BodyEntries = <<theirs_dict[k]>>

\* the entries decide_entry returns over all the keys
DecidedEntries ==
    {r.value : r \in {x \in {decide_entry(Get(base_dict, k), Get(ours_dict, k),
                                          Get(theirs_dict, k), config) : k \in AllKeys} :
                         x.tag = "return" /\ x.value # None}}

\* C7: under strategy none a modify/modify disagreement the rules do not decide
\* makes the merge return 1; the ours file holds the other decided entries, none
\* under the conflicting key, followed by a block with both variants.
C7_ConflictExitCode ==
    \A k \in AllKeys :
        (pc # "parse" /\ config.strategy = "none" /\ ModifyModify(k) /\ RulesDoNotDecide(k)) =>
            /\ Returned => exit_code = 1
            /\ pc = "done" =>
                  /\ Range(BodyEntries) = DecidedEntries
                  /\ \A i \in DOMAIN BodyEntries :
                        get_unique_entry_key(BodyEntries[i]) # k
                  /\ MarkersWritten =>
                        \E i \in DOMAIN files["ours"].tail :
                            files["ours"].tail[i] =
                                MergeConflictBlock(<<ours_dict[k], theirs_dict[k]>>)

C7_Witness ==
    /\ pc = "done" /\ exit_code = 1 /\ MarkersWritten
    /\ config.strategy = "none"
    /\ Len(BodyEntries) = 1
    /\ Len(files["ours"].tail) = 1
    /\ \E k \in AllKeys :
          /\ ModifyModify(k) /\ RulesDoNotDecide(k)
          /\ files["ours"].tail[1] = MergeConflictBlock(<<ours_dict[k], theirs_dict[k]>>)
          /\ get_unique_entry_key(BodyEntries[1]) # k

\* two entries carry the same context and the same id
SameContextAndId(e, f) == e.msgctxt = f.msgctxt /\ e.msgid = f.msgid

\* C8: with an empty base, an ours entry and a theirs entry with the same id and
\* different contexts are both in the merged output, with no conflict.
C8_ContextDisambiguation ==
    (Decided /\ B = <<>>) =>
        \A i \in DOMAIN O : \A j \in DOMAIN T :
            ( /\ O[i].msgid = T[j].msgid /\ O[i].msgctxt # T[j].msgctxt
              /\ \A n \in DOMAIN O : n # i => ~SameContextAndId(O[n], O[i])
              /\ \A n \in DOMAIN T : n # j => ~SameContextAndId(T[n], T[j])
              /\ \A n \in DOMAIN T : ~SameContextAndId(T[n], O[i])
              /\ \A n \in DOMAIN O : ~SameContextAndId(O[n], T[j]) ) =>
                /\ O[i] \in Range(merged_entries)
                /\ T[j] \in Range(merged_entries)
                /\ \A n \in DOMAIN merge_conflicts :
                      /\ O[i] \notin Range(merge_conflicts[n])
                      /\ T[j] \notin Range(merge_conflicts[n])
                /\ Saved => O[i] \in Range(BodyEntries) /\ T[j] \in Range(BodyEntries)

C8_Witness ==
    /\ pc = "done" /\ exit_code = 0
    /\ B = <<>> /\ Len(O) = 1 /\ Len(T) = 1
    /\ O[1].msgid = T[1].msgid /\ O[1].msgctxt # T[1].msgctxt
    /\ O[1].obsolete = T[1].obsolete
    /\ Range(BodyEntries) = {O[1], T[1]}
    /\ Len(BodyEntries) = 2

\* C9: an active and an obsolete entry with the same (context, id) are distinct
\* identities: with an empty base, ours holding the active one and theirs the
\* obsolete one, the merged output holds both and the merge returns 0.
C9_ActiveAndObsoleteDistinct ==
    ( /\ pc = "done" /\ B = <<>> /\ Len(O) = 1 /\ Len(T) = 1
      /\ O[1].msgid = T[1].msgid /\ O[1].msgctxt = T[1].msgctxt
      /\ ~O[1].obsolete /\ T[1].obsolete ) =>
        /\ O[1] \in Range(BodyEntries)
        /\ T[1] \in Range(BodyEntries)
        /\ exit_code = 0

\* the order of the written catalog, stated on the tokens
CtxToken(e) == IF e.msgctxt = NoCtx THEN 0 ELSE e.msgctxt
InOrder(a, b) ==
    \/ a.msgid < b.msgid
    \/ a.msgid = b.msgid /\ CtxToken(a) <= CtxToken(b)

\* C10: in the written catalog every active entry precedes every obsolete one,
\* and each group ascends by (id, context or empty string).
C10_OutputOrdering ==
    Saved =>
        /\ Len(BodyEntries) = Len(merged_entries)
        /\ \A i, j \in DOMAIN BodyEntries :
              i < j =>
                /\ BodyEntries[i].obsolete => BodyEntries[j].obsolete
                /\ BodyEntries[i].obsolete = BodyEntries[j].obsolete =>
                      InOrder(BodyEntries[i], BodyEntries[j])

C10_Witness ==
    /\ pc = "done"
    /\ Len(BodyEntries) = 3
    /\ ~BodyEntries[1].obsolete /\ ~BodyEntries[2].obsolete /\ BodyEntries[3].obsolete
    /\ BodyEntries[1].msgid = BodyEntries[2].msgid
    /\ BodyEntries[3].msgid < BodyEntries[1].msgid
    /\ merged_entries[1] = BodyEntries[3]
    /\ merged_entries[2] = BodyEntries[2]

\* ---------------------------------------------------------------- C11
\* one arrangement of a set of entries and of a set of keys, the same for every run
EntryBefore(a, b) ==
    LET Bit(x) == IF x THEN 1 ELSE 0
        ka == <<a.msgid, a.msgctxt, Bit(a.obsolete), a.msgstr, Bit(a.fuzzy)>>
        kb == <<b.msgid, b.msgctxt, Bit(b.obsolete), b.msgstr, Bit(b.fuzzy)>>
    IN \E n \in 1..5 : ka[n] < kb[n] /\ \A m \in 1..(n - 1) : ka[m] = kb[m]
Arranged(S) ==
    CHOOSE s \in [1..Cardinality(S) -> S] :
        \A i, j \in 1..Cardinality(S) : i < j => EntryBefore(s[i], s[j])
KeyBefore(k1, k2) == k1[2] < k2[2] \/ (k1[2] = k2[2] /\ k1[1] < k2[1])
ArrangedKeys(K) ==
    CHOOSE s \in [1..Cardinality(K) -> K] :
        \A i, j \in 1..Cardinality(K) : i < j => KeyBefore(s[i], s[j])

\* the run on the arranged inputs that visits the keys in the arranged order
RECURSIVE ReferenceDecisions(_, _, _, _, _)
ReferenceDecisions(keys, bd, od, td, acc) ==
    IF keys = <<>> THEN acc
    ELSE
        LET r == decide_entry(Get(bd, Head(keys)), Get(od, Head(keys)),
                              Get(td, Head(keys)), config)
            next ==
                CASE r.tag = "return" /\ r.value # None ->
                        [acc EXCEPT !.merged_entries = Append(@, r.value)]
                  [] r.tag = "UnresolvedConflict" ->
                        [acc EXCEPT !.merge_conflicts =
                            Append(@, <<r.ours_entry, r.theirs_entry>>)]
                  [] OTHER -> acc
        IN ReferenceDecisions(Tail(keys), bd, od, td, next)

ReferenceRun ==
    LET bd == ToDict(Arranged(Range(B)))
        od == ToDict(Arranged(Range(O)))
        td == ToDict(Arranged(Range(T)))
        r == ReferenceDecisions(
                ArrangedKeys(DOMAIN bd \cup DOMAIN od \cup DOMAIN td), bd, od, td,
                [merged_entries |-> <<>>, merge_conflicts |-> <<>>])
    IN [entries |-> sort_entries(SelectSeq(r.merged_entries, IsActive))
                    \o sort_entries(SelectSeq(r.merged_entries, IsObsolete)),
        blocks |-> format_merge_conflicts(sort_conflicts(r.merge_conflicts))]

\* C11: order independence.  For catalogs without duplicate identities, the
\* emitted entry sequence and the emitted merge-conflict blocks are those of the
\* reference run on the same sets of entries, whatever the order of the records
\* in the three inputs and the order in which the keys were visited.
C11_OrderIndependence ==
    (DistinctIdentities(B) /\ DistinctIdentities(O) /\ DistinctIdentities(T)) =>
        /\ Saved => BodyEntries = ReferenceRun.entries
        /\ (pc = "done" /\ MarkersWritten) => files["ours"].tail = ReferenceRun.blocks

\* ---------------------------------------------------------------- C12
\* the run has ended: merge_po_files returned, or an exception ended the driver
Ended == pc \in {"done", "save failed", "crashed", "read failed"}
NothingRemains == merge_conflicts = <<>> /\ ~has_parse_failures

\* C12 as stated: merge_po_files returns 0 exactly when no unresolved conflict and
\* no failed entry remains, and 1 otherwise.
C12_ExitStatusExactlyWhenClean ==
    Returned => (exit_code = 0 <=> NothingRemains)

\* C12, amended: a run that saved the catalog and returned from the last lines
\* returns 0 exactly when no unresolved conflict and no failed entry remains; a
\* run whose save failed returns 1 whatever remains; and every run that ended
\* with a conflict or a failed entry has exit status 1, under every strategy.
C12_ExitStatus ==
    /\ pc = "done" => (exit_code = 0 <=> NothingRemains)
    /\ pc = "save failed" => exit_code = 1
    /\ (Ended /\ ~NothingRemains) => exit_code = 1
    /\ exit_code \in {NoExit, 0, 1}

C12_Witness ==
    /\ pc = "done" /\ config.strategy = "ours"
    /\ Len(theirs_result.failed_entries) > 0
    /\ merge_conflicts = <<>> /\ Len(merged_entries) > 0
    /\ exit_code = 1

\* ---------------------------------------------------------------- C13
\* what becomes of a chunk, read off the chunk itself
IsHeaderRead(c) == c.kind \in {"header", "multiline entry"}
IsValidRead(c) ==
    \/ c.kind = "entry" /\ c.entry.msgid # 0
    \/ c.kind = "entries" /\ c.entries[1].msgid # 0
IsDropped(c) ==
    \/ c.kind = "entry" /\ c.entry.msgid = 0
    \/ c.kind = "entries" /\ c.entries[1].msgid = 0
IsFailure(c) == c.kind \in {"malformed", "malformed header", "no entry"}

\* the line offset of the chunk at index i: the lines and separators before it
RECURSIVE LineOffsetAt(_, _)
LineOffsetAt(chunks, i) ==
    IF i = 1 THEN 0 ELSE LineOffsetAt(chunks, i - 1) + NewlineCount(chunks[i - 1]) + 2

\* the result accounts for every chunk of the file once, in the order of the file
AccountsFor(result, chunks) ==
    LET valid == SelectSeq(chunks, IsValidRead)
        at == {i \in DOMAIN chunks : IsFailure(chunks[i])}
        Nth(n) == CHOOSE i \in at : Cardinality({j \in at : j < i}) = n - 1
    IN  /\ Len(result.valid_entries) = Len(valid)
        /\ \A n \in DOMAIN valid :
              result.valid_entries[n] =
                  IF valid[n].kind = "entry" THEN valid[n].entry ELSE valid[n].entries[1]
        /\ Len(result.failed_entries) = Cardinality(at)
        /\ \A n \in 1..Cardinality(at) :
              /\ result.failed_entries[n].text = chunks[Nth(n)].text
              /\ result.failed_entries[n].line = LineOffsetAt(chunks, Nth(n))
              /\ result.failed_entries[n].error # "None"
        /\ Len(chunks) = Len(valid) + Cardinality(at)
                         + Len(SelectSeq(chunks, IsHeaderRead))
                         + Len(SelectSeq(chunks, IsDropped))

IsParseErrorBlock(block) == block.kind = "PARSE ERROR"

\* C14: failed entries in any of the three inputs, base alone included, do not
\* stop the merge: no exception ends the run, the decided entries are written to
\* the ours path, one parse-error block per failure group is appended, and
\* merge_po_files returns 1.
C14_ParseFailureRecoverable ==
    has_parse_failures =>
        /\ pc # "crashed"
        /\ pc = "done" =>
              /\ exit_code = 1
              /\ Range(BodyEntries) = Range(merged_entries)
              /\ MarkersWritten =>
                    Len(SelectSeq(files["ours"].tail, IsParseErrorBlock))
                        = Len(failures_by_key(base_result.failed_entries,
                                              ours_result.failed_entries,
                                              theirs_result.failed_entries))

\* ---------------------------------------------------------------- C15
\* C15: a merge configured with an unknown strategy never writes the ours path
\* and never returns 0, whatever the three inputs hold.
C15_UnknownStrategyAborts ==
    config.strategy \notin Strategies =>
        /\ ~Saved
        /\ exit_code # 0

\* ---------------------------------------------------------------- C16
\* C16: once the read of an input has failed, the run is over with the read error
\* and a non-zero exit status, and no step changes any of the three files: no
\* catalog is saved and no marker is appended.
C16_ReadFailureLeavesFiles ==
    /\ []( "ERROR: Failed to read file" \in printed =>
              pc = "read failed" /\ exit_code = 1 )
    /\ [][ "ERROR: Failed to read file" \in printed' => files' = files ]_vars

C16_Witness ==
    /\ pc = "read failed"
    /\ Len(files["ours"].chunks) > 1
    /\ files["ours"].tail = <<>>

\* ---------------------------------------------------------------- C17
IsCompilationErrorBlock(block) == block.kind = "COMPILATION ERROR"
CompilationErrorBlocks == SelectSeq(files["ours"].tail, IsCompilationErrorBlock)

\* C17: the validator runs only when validate_compiled is set; when it reported a
\* failure, a COMPILATION ERROR block is appended after the merged catalog, which
\* stays as saved; when msgfmt is not installed there is a warning and no block.
C17_CompilationValidation ==
    /\ ~config.validate_compiled =>
          /\ compilation_error = NoError
          /\ "Warning: msgfmt not found" \notin printed
    /\ (pc = "done" /\ MarkersWritten) =>
          /\ files["ours"].chunks =
                SavedChunks(merged_metadata, active_entries \o obsolete_entries)
          /\ compilation_error # NoError =>
                /\ Len(CompilationErrorBlocks) = 1
                /\ IsCompilationErrorBlock(files["ours"].tail[Len(files["ours"].tail)])
          /\ compilation_error = NoError => CompilationErrorBlocks = <<>>
    /\ "Warning: msgfmt not found" \in printed => compilation_error = NoError

\* ---------------------------------------------------------------- C18
\* the metadata of the header record a file starts with
HeaderOf(path) == files[path].chunks[1].metadata

\* C18 as stated: the merged catalog carries the metadata of ours.
C18_MetadataFromOurs ==
    Saved => HeaderOf("ours") = ours_result.metadata

\* C18, amended: the merged catalog carries the metadata of one side whole, the
\* metadata of theirs under strategy theirs and the metadata of ours under every
\* other strategy; it never carries the metadata of base when base differs.
C18_MetadataFromChosenSide ==
    Saved =>
        /\ files["ours"].chunks[1].kind = "header"
        /\ config.strategy = "theirs" => HeaderOf("ours") = HeaderOf("theirs")
        /\ config.strategy # "theirs" => HeaderOf("ours") = ours_result.metadata
        /\ ( /\ HeaderOf("base") # ours_result.metadata
             /\ HeaderOf("base") # HeaderOf("theirs") ) =>
                HeaderOf("ours") # HeaderOf("base")

C18_Witness ==
    /\ pc = "done" /\ config.strategy = "theirs"
    /\ HeaderOf("base") # ours_result.metadata
    /\ HeaderOf("base") # HeaderOf("theirs")
    /\ ours_result.metadata # HeaderOf("theirs")
    /\ HeaderOf("ours") = HeaderOf("theirs")
    /\ Len(BodyEntries) > 0

\* ---------------------------------------------------------------- C19
\* the parse result of the file at a path
ResultOf(p) ==
    CASE p = "base" -> base_result
      [] p = "ours" -> ours_result
      [] OTHER -> theirs_result

\* a chunk that does not parse into exactly one entry: more than one entry, no
\* entry, or a structural parse error
IsNotOneEntry(c) == c.kind \in {"entries", "no entry", "malformed"}
IsOneEntry(c) == c.kind = "entry" /\ c.entry.msgid # 0

\* the failed entries of a result are the chunks that are not one entry (and the
\* broken headers), one each, in order, with a text and an error; the valid
\* entries are the chunks that are one entry
RecordsFailures(result, chunks) ==
    LET failing == SelectSeq(chunks, LAMBDA c : IsNotOneEntry(c) \/ c.kind = "malformed header")
        single == SelectSeq(chunks, IsOneEntry)
    IN  /\ Len(result.failed_entries) = Len(failing)
        /\ \A n \in DOMAIN failing :
              /\ n \in DOMAIN result.failed_entries
              /\ result.failed_entries[n].text = failing[n].text
              /\ result.failed_entries[n].error # "None"
        /\ result.valid_entries = [n \in DOMAIN single |-> single[n].entry]

\* C19: a chunk that parses into more than one entry, into no entry, or that
\* raises a parse error, is recorded as one failed entry with its raw text and
\* an error message, and contributes no valid entry.
C19_NotOneEntryFails ==
    pc = "decide" =>
        \A p \in Paths :
            (\A i \in DOMAIN files[p].chunks : files[p].chunks[i].kind # "multiline entry") =>
                RecordsFailures(ResultOf(p), files[p].chunks)

\* ---------------------------------------------------------------- C20
\* a well-formed record with a non-empty msgid, however its strings are laid out
IsWellFormedEntry(c) ==
    c.kind \in {"entry", "multiline entry"} /\ c.entry.msgid # 0

\* the metadata of the last header record of a file, 0 (empty) when it has none
HeaderRecordMetadata(chunks) ==
    LET at == {i \in DOMAIN chunks : chunks[i].kind = "header"}
    IN  IF at = {} THEN 0
        ELSE chunks[CHOOSE i \in at : \A j \in at : j <= i].metadata

\* C20: only a record with an empty msgid and an empty msgstr is read as the
\* header; every well-formed record with a non-empty msgid, one written with
\* empty first lines and continuation lines included, appears in valid_entries
\* and leaves the metadata alone.
C20_HeaderClassification ==
    pc = "decide" =>
        \A p \in Paths :
            /\ \A i \in DOMAIN files[p].chunks :
                  IsWellFormedEntry(files[p].chunks[i]) =>
                      files[p].chunks[i].entry \in Range(ResultOf(p).valid_entries)
            /\ ResultOf(p).metadata = HeaderRecordMetadata(files[p].chunks)

\* ---------------------------------------------------------------- C21
\* the groups of the failures of the three results, and the blocks appended for them
FailureGroups ==
    failures_by_key(base_result.failed_entries, ours_result.failed_entries,
                    theirs_result.failed_entries)
ParseErrorBlocks == SelectSeq(files["ours"].tail, IsParseErrorBlock)

\* the sources of a group with their lines, in the order base, ours, theirs
SourcesOf(group) ==
    (IF group.base # None THEN <<<<"BASE", group.base.line>>>> ELSE <<>>)
    \o (IF group.ours # None THEN <<<<"OURS", group.ours.line>>>> ELSE <<>>)
    \o (IF group.theirs # None THEN <<<<"THEIRS", group.theirs.line>>>> ELSE <<>>)

\* the block has the shape the group calls for
HasGroupShape(block, group) ==
    /\ block.sources = SourcesOf(group)
    /\ block.error = group.error
    /\ group.base # None => group.base.text \in Range(block.texts)
    /\ group.ours # None => group.ours.text \in Range(block.texts)
    /\ group.theirs # None => group.theirs.text \in Range(block.texts)
    /\ (group.base # None /\ group.ours # None /\ group.theirs # None) =>
          /\ block.texts = <<group.ours.text, group.base.text, group.theirs.text>>
          /\ block.closing = "PARSE ERROR"
    /\ group.base = None => block.closing \in {"OURS", "THEIRS"}

\* C21: the appended parse-error blocks are one per group of failures with the
\* same extracted identity, in order; a block lists every source of its group
\* with its line, holds the raw text of every source present in the group, is
\* three-way (ours / base / theirs) when all three are present and two-way with
\* the placeholder when the base copy is missing.
C21_ParseErrorBlockShape ==
    (pc = "done" /\ MarkersWritten) =>
        /\ Len(ParseErrorBlocks) = Len(FailureGroups)
        /\ \A n \in DOMAIN FailureGroups :
              n \in DOMAIN ParseErrorBlocks
              /\ HasGroupShape(ParseErrorBlocks[n], FailureGroups[n])

\* ---------------------------------------------------------------- C22
\* C22: the catalog part of the ours file is written by one step only, taken
\* after the three parses when no key is left to decide, and at most once; the
\* markers are appended only by a later step, after that save, and leave the
\* catalog part alone; base and theirs are never written; a run whose save
\* failed has returned 1, has validated nothing and appended nothing, and takes
\* no further step.
C22_WriteOrdering ==
    /\ []( "Failed to save merged file" \in printed =>
              /\ pc = "save failed" /\ exit_code = 1
              /\ compilation_error = NoError
              /\ "Warning: msgfmt not found" \notin printed
              /\ "Failed to write conflict markers" \notin printed )
    /\ [][ /\ files'["base"] = files["base"]
           /\ files'["theirs"] = files["theirs"]
           /\ files'["ours"].chunks # files["ours"].chunks =>
                 /\ pc = "decide" /\ all_keys = {} /\ pc' = "validate"
                 /\ files'["ours"].tail = <<>>
           /\ files'["ours"].tail # files["ours"].tail =>
                 \/ pc = "decide" /\ pc' = "validate"
                 \/ /\ pc = "markers" /\ pc' = "done"
                    /\ files'["ours"].chunks = files["ours"].chunks
           /\ pc = "decide" => pc' \in {"decide", "validate", "save failed", "crashed"}
           /\ pc \in {"validate", "markers", "done"} => pc' \in {"markers", "done", "crashed"}
           /\ "Failed to save merged file" \in printed => files' = files
         ]_vars

C22_Witness ==
    /\ pc = "done"
    /\ Len(merge_conflicts) > 0
    /\ compilation_error \notin {NoError, ""}
    /\ Len(files["ours"].tail) = 2

\* ---------------------------------------------------------------- C23
\* the keys whose ours and theirs entries differ in the obsolete flag, and the
\* live entry of such a key
OneObsolete(k) ==
    /\ k \in DOMAIN ours_dict /\ k \in DOMAIN theirs_dict
    /\ ours_dict[k].obsolete # theirs_dict[k].obsolete
LiveEntry(k) == IF ours_dict[k].obsolete THEN theirs_dict[k] ELSE ours_dict[k]

\* the resolve_conflict of po_merge alone returns the live entry
ObsoleteRuleFirst ==
    \A k \in AllKeys : OneObsolete(k) =>
        resolve_conflict(ours_dict[k], theirs_dict[k], config) = Return(LiveEntry(k))

ContentEqual(e1, e2) ==
    /\ e1.msgstr = e2.msgstr
    /\ e1.msgstr_plural = e2.msgstr_plural
    /\ e1.fuzzy = e2.fuzzy

InAllThree(k) ==
    k \in DOMAIN base_dict /\ k \in DOMAIN ours_dict /\ k \in DOMAIN theirs_dict

\* the key k is settled by the one entry e
DecidedAs(k, e) ==
    /\ DecidedAt(k) = {e}
    /\ DecidedCount(k) = 1
    /\ k \notin ConflictKeys

\* C24: for a key present on the three sides, when exactly one side is
\* content-unequal to base (a change of the fuzzy flag alone included) that
\* side's entry is the decided one, and when neither is, the base entry is;
\* whatever prefer_non_fuzzy and the strategy are.
C24_OneSidedChange ==
    Decided =>
        \A k \in AllKeys : InAllThree(k) =>
            LET ours_changed == ~ContentEqual(base_dict[k], ours_dict[k])
                theirs_changed == ~ContentEqual(base_dict[k], theirs_dict[k])
            IN  /\ (ours_changed /\ ~theirs_changed) => DecidedAs(k, ours_dict[k])
                /\ (theirs_changed /\ ~ours_changed) => DecidedAs(k, theirs_dict[k])
                /\ (~ours_changed /\ ~theirs_changed) => DecidedAs(k, base_dict[k])

\* ours only added the fuzzy flag, and the configuration prefers non-fuzzy
C24_Witness ==
    /\ pc = "done"
    /\ config.prefer_non_fuzzy
    /\ config.strategy = "theirs"
    /\ \E k \in AllKeys :
          /\ InAllThree(k)
          /\ ours_dict[k].msgstr = base_dict[k].msgstr
          /\ ours_dict[k].fuzzy /\ ~base_dict[k].fuzzy
          /\ ContentEqual(base_dict[k], theirs_dict[k])
          /\ DecidedAs(k, ours_dict[k])

\* ---------------------------------------------------------------- C25
\* ours and theirs hold the same content, added by both or changed to by both
Convergent(k) ==
    /\ k \in DOMAIN ours_dict /\ k \in DOMAIN theirs_dict
    /\ ContentEqual(ours_dict[k], theirs_dict[k])
    /\ \/ k \notin DOMAIN base_dict
       \/ /\ ~ContentEqual(base_dict[k], ours_dict[k])
          /\ ~ContentEqual(base_dict[k], theirs_dict[k])

\* C25: when ours and theirs are both present and content-equal (both added it,
\* or both changed base to it), the key is settled by exactly one entry, the
\* ours entry as it stands, with no conflict and without the conflict rules
\* (which would hand back the live entry of an obsolete/live pair, or follow
\* the strategy), for every configuration.
C25_ConvergentEdits ==
    pc \in {"decide", "validate", "markers", "done", "save failed"} =>
        \A k \in AllKeys : (Convergent(k) /\ k \notin all_keys) =>
            DecidedAs(k, ours_dict[k])

\* both sides added one content, ours as an obsolete entry and theirs as a live
\* one, under the strategy theirs: the conflict rules would return theirs
C25_Witness ==
    /\ pc = "done"
    /\ config.strategy = "theirs"
    /\ \E k \in AllKeys :
          /\ Convergent(k)
          /\ k \notin DOMAIN base_dict
          /\ ours_dict[k].obsolete /\ ~theirs_dict[k].obsolete
          /\ DecidedAs(k, ours_dict[k])

\* ---------------------------------------------------------------- C26
\* e is, field for field, the entry one of the three sides holds under its key
TakenWhole(e) ==
    LET k == <<e.msgctxt, e.msgid>>
    IN  \/ k \in DOMAIN base_dict /\ e = base_dict[k]
        \/ k \in DOMAIN ours_dict /\ e = ours_dict[k]
        \/ k \in DOMAIN theirs_dict /\ e = theirs_dict[k]

\* C26: every decided entry, and every entry of the written catalog, is whole
\* and verbatim the base, ours or theirs entry indexed under its key: the
\* translation and the plural translations come from one side together, never
\* field by field from different sides.
C26_NoBlending ==
    /\ \A i \in DOMAIN merged_entries : TakenWhole(merged_entries[i])
    /\ Saved => \A i \in DOMAIN BodyEntries : TakenWhole(BodyEntries[i])

\* a conflict on translation and plurals together, resolved for theirs
C26_Witness ==
    /\ pc = "done"
    /\ config.strategy = "theirs"
    /\ \E k \in AllKeys :
          /\ InAllThree(k)
          /\ ours_dict[k].msgstr # theirs_dict[k].msgstr
          /\ ours_dict[k].msgstr_plural # theirs_dict[k].msgstr_plural
          /\ ~ContentEqual(base_dict[k], ours_dict[k])
          /\ ~ContentEqual(base_dict[k], theirs_dict[k])
          /\ BodyEntries = <<theirs_dict[k]>>

\* ---------------------------------------------------------------- C27
MarkerBlocks == files["ours"].tail

\* C27: whenever a conflict-marker block of any kind (parse error, merge
\* conflict, compilation error) has been appended to the ours file,
\* merge_po_files returns non-zero; a return of 0 leaves the ours file holding
\* the serialized catalog and nothing else.
C27_MarkersImplyFailure ==
    pc = "done" =>
        /\ MarkerBlocks # <<>> => exit_code # 0
        /\ exit_code = 0 => MarkerBlocks = <<>>

\* the same, for the runs whose validator reported nothing
MarkersImplyFailureWithoutValidator ==
    (pc = "done" /\ compilation_error = NoError) =>
        (MarkerBlocks # <<>> => exit_code # 0)

\* ---------------------------------------------------------------- C28
FailedEntries ==
    Range(base_result.failed_entries) \cup Range(ours_result.failed_entries)
        \cup Range(theirs_result.failed_entries)

InSomeParseErrorBlock(text) ==
    \E n \in DOMAIN ParseErrorBlocks : text \in Range(ParseErrorBlocks[n].texts)

\* C28: once the merge has ended past the save, the raw text of every failed
\* chunk of base, ours and theirs stands in a parse-error block of the ours
\* file: two failed chunks of one input with one extracted identity, and a
\* group with ours and theirs and no base, included.
C28_NoFailedChunkLost ==
    (pc \in {"done", "crashed"} /\ MarkersWritten /\ all_keys = {}) =>
        \A f \in FailedEntries : InSomeParseErrorBlock(f.text)

\* the groups that hold every failure of their sources and that the formatter
\* renders in full: no source failed twice under one identity, no group of
\* ours and theirs without base, no group of base alone
GroupsRenderedInFull ==
    /\ Len(base_result.failed_entries) =
          Cardinality({n \in DOMAIN FailureGroups : FailureGroups[n].base # None})
    /\ Len(ours_result.failed_entries) =
          Cardinality({n \in DOMAIN FailureGroups : FailureGroups[n].ours # None})
    /\ Len(theirs_result.failed_entries) =
          Cardinality({n \in DOMAIN FailureGroups : FailureGroups[n].theirs # None})
    /\ \A n \in DOMAIN FailureGroups :
          LET g == FailureGroups[n]
          IN  /\ ~(g.base = None /\ g.ours # None /\ g.theirs # None)
              /\ ~(g.ours = None /\ g.theirs = None)

NoFailedChunkLostInFullGroups ==
    (pc \in {"done", "crashed"} /\ MarkersWritten /\ all_keys = {}
        /\ GroupsRenderedInFull) =>
        \A f \in FailedEntries : InSomeParseErrorBlock(f.text)

\* ---------------------------------------------------------------- C29
KeyOf(e) == <<e.msgctxt, e.msgid>>
ConflictCount(k) ==
    Cardinality({i \in DOMAIN merge_conflicts : KeyOf(merge_conflicts[i][1]) = k})
EntryCount(entries, k) ==
    Cardinality({i \in DOMAIN entries : KeyOf(entries[i]) = k})

\* what the loop has recorded so far, key by key
SettledOnce ==
    /\ \A k \in AllKeys :
          /\ k \in all_keys => EntryCount(merged_entries, k) = 0 /\ ConflictCount(k) = 0
          /\ EntryCount(merged_entries, k) + ConflictCount(k) <= 1
          /\ ConflictCount(k) = 1 =>
                /\ config.strategy = "none"
                /\ k \in DOMAIN ours_dict /\ k \in DOMAIN theirs_dict
                /\ ~ContentEqual(ours_dict[k], theirs_dict[k])
                /\ \E i \in DOMAIN merge_conflicts :
                      merge_conflicts[i] = <<ours_dict[k], theirs_dict[k]>>
    /\ \A i \in DOMAIN merged_entries : KeyOf(merged_entries[i]) \in AllKeys
    /\ \A i \in DOMAIN merge_conflicts : KeyOf(merge_conflicts[i][1]) \in AllKeys
    /\ Saved => \A k \in AllKeys :
                   EntryCount(BodyEntries, k) = EntryCount(merged_entries, k)

\* one pass of the loop takes one key and records at most one thing, under it
SettlesOneKey ==
    (pc = "decide" /\ all_keys' # all_keys) =>
        \E k \in all_keys :
            /\ all_keys' = all_keys \ {k}
            /\ \/ merged_entries' = merged_entries /\ merge_conflicts' = merge_conflicts
               \/ /\ Len(merged_entries') = Len(merged_entries) + 1
                  /\ KeyOf(merged_entries'[Len(merged_entries')]) = k
                  /\ merge_conflicts' = merge_conflicts
               \/ /\ Len(merge_conflicts') = Len(merge_conflicts) + 1
                  /\ KeyOf(merge_conflicts'[Len(merge_conflicts')][1]) = k
                  /\ merged_entries' = merged_entries

\* C29: every key of the union of the three indices is settled exactly once,
\* by one decided entry, one conflict pair or a drop, and never by a decided
\* entry and a conflict pair together; the written catalog holds at most one
\* entry per key; a conflict pair is recorded only under the strategy none,
\* for a key whose ours and theirs entries are both present and content-unequal.
C29_EveryKeySettledOnce == []SettledOnce /\ [][SettlesOneKey]_vars

\* a returned run with a decided key, a conflicting key and a dropped key
C29_Witness ==
    /\ pc = "done"
    /\ \E k1, k2, k3 \in AllKeys :
          /\ EntryCount(BodyEntries, k1) = 1
          /\ ConflictCount(k2) = 1
          /\ EntryCount(BodyEntries, k3) = 0 /\ ConflictCount(k3) = 0

\* ---------------------------------------------------------------- C30
\* the configuration with the strategies ours and theirs exchanged
ExchangedConfig ==
    [config EXCEPT !.strategy =
        IF @ = "ours" THEN "theirs" ELSE IF @ = "theirs" THEN "ours" ELSE @]

Decision(k) ==
    decide_entry(Get(base_dict, k), Get(ours_dict, k), Get(theirs_dict, k), config)
ExchangedDecision(k) ==
    decide_entry(Get(base_dict, k), Get(theirs_dict, k), Get(ours_dict, k),
                 ExchangedConfig)

\* the same kind of decision and, when an entry is decided, the same identity,
\* translation, plurals, fuzzy and obsolete flags
SameDecision(r1, r2) ==
    /\ r1.tag = r2.tag
    /\ r1.tag = "return" => r1.value = r2.value

\* C30: exchanging the ours input with the theirs input, and the strategy ours
\* with the strategy theirs, gives for every key the same kind of decision
\* (decided entry, conflict, drop) and, when an entry is decided, an entry of
\* the same identity and content (translation, plurals, fuzzy, obsolete).
C30_OursTheirsSymmetry ==
    pc # "parse" => \A k \in AllKeys : SameDecision(Decision(k), ExchangedDecision(k))

\* the same, for the keys whose ours and theirs entries agree on the obsolete
\* flag, as they would under a key that carries the flag
SymmetryUnderEqualObsolete ==
    pc # "parse" =>
        \A k \in AllKeys :
            ((k \in DOMAIN ours_dict /\ k \in DOMAIN theirs_dict) =>
                ours_dict[k].obsolete = theirs_dict[k].obsolete)
            => SameDecision(Decision(k), ExchangedDecision(k))

====
